---- MODULE Spec2Model ----
(***************************************************************************)
(* Model of src/Parallel_scrapper.py: the crawl loop of                    *)
(* scrape_universities, the detail-page tasks of process_university_       *)
(* parallel / process_university with their scholarship sub-pool, the      *)
(* session pool (session_store) and the read-merge-write persistence of    *)
(* save_university_data under json_lock.                                   *)
(*                                                                         *)
(* The specifications share the variables:                                 *)
(*   Spec         the program as it runs from scrape_universities();       *)
(*   SpecFair     the same under fair scheduling of the threads;           *)
(*   SpecPersist  save_university_data called by several threads at once   *)
(*                (the function's own concurrency contract);               *)
(*   SpecPersistAnyStore  the same on any file found at start;             *)
(*   SpecPersistFaults    the same with writes of the file that can fail;  *)
(*   SpecPages    get_total_scholarship_pages on any pagination markup.    *)
(***************************************************************************)
EXTENDS Integers, Sequences, FiniteSets, TLC

VARIABLES
    Base_page,        \* scrape_universities: listing page index (line 408)
    mainPc,           \* position of the main thread in scrape_universities
    mainSession,      \* scrape_universities: local `session` (0 = none)
    mainExc,          \* an exception is propagating out of the try block (413-447)
    mainAttempts,     \* HTTP GETs issued by the main thread's last make_request
    session_store,    \* the Queue of sessions (line 23), FIFO
    university_cache, \* scrape_universities: `university_cache` dict (line 409)
    tasks,            \* the futures of the current listing page, by link position
    store,            \* the file universities_data.json
    json_lock,        \* threading.Lock (line 24): 0 = free, else the holder
    ppc,              \* SpecPersist: position of each caller in save_university_data
    parg,             \* SpecPersist: the caller's argument `university_data`
    pdata,            \* SpecPersist: the caller's local `existing_data`
    pages_call        \* SpecPages: a call of get_total_scholarship_pages

crawlVars == <<Base_page, mainPc, mainSession, mainExc, mainAttempts,
               session_store, university_cache, tasks>>
persistVars == <<ppc, parg, pdata>>
vars == <<Base_page, mainPc, mainSession, mainExc, mainAttempts, session_store,
          university_cache, tasks, store, json_lock, ppc, parg, pdata,
          pages_call>>

----------------------------------------------------------------------------
(* Bounds and program constants *)

MAX_WORKERS == 2        \* line 20 has 5; scaled down (a bound of the model)
SUB_WORKERS == 3        \* line 260: ThreadPoolExecutor(max_workers=3)
FirstPage == 15201      \* line 408
NumPages == 2           \* line 411 runs 1900 pages; scaled down
LastPage == FirstPage + NumPages    \* line 411: while Base_page < 17101
MaxLinks == 3           \* detail links found on one listing page
MaxScholLinks == 4      \* scholarship links found for one detail page
MaxControls == 3        \* SpecPages: pagination anchors on one page
NumCallers == 2         \* SpecPersist: threads calling save_university_data

Sessions == 1..MAX_WORKERS
Callers == 1..NumCallers
MainThread == 0

----------------------------------------------------------------------------
(* Records *)

\* Python None, as returned by process_university on every failure path.
None == [none |-> TRUE]

EmptyDoc == [c \in {} |-> [u \in {} |-> {}]]

InSeq(x, s) == \E i \in 1..Len(s) : s[i] = x

\* A program dict (create_program_dict): course_detail stands for the seven
\* fields besides course_title.  A scholarship dict likewise.
Prog(t, d) == [course_title |-> t, course_detail |-> d]
Schol(t, d) == [title |-> t, funding_details |-> d]

\* The `universities` part of a record returned by process_university.
UniDict(name, v, progs, schols) ==
    [university_name |-> name,
     overview |-> <<"overview", v>>,
     world_rank |-> <<"rank", v>>,
     entry_requirements |-> <<"entry", v>>,
     scholarships_and_funding |-> <<"funding", v>>,
     programs |-> progs,
     available_scholarships |-> schols]

Record(country, uni) == [location |-> country, universities |-> uni]


Countries == {"UK", "AU"}
UniNames == {"X", "Y", "Z"}

P1 == Prog("CS101", "d1")
P1b == Prog("CS101", "d2")     \* same course_title as P1, other fields differ
P2 == Prog("CS102", "d1")
P3 == Prog("CS103", "d1")
S1 == Schol("Merit", "f1")
S1b == Schol("Merit", "f2")    \* same title as S1, other fields differ
S2 == Schol("Sports", "f1")

\* The record contents the callers of SpecPersist pass in: <<scalar variant,
\* programs, available_scholarships>>.
Bodies ==
    { <<1, <<P1, P2>>, <<S1>>>>,
      <<2, <<P2, P3>>, <<S1, S2>>>>,
      <<2, <<P1b>>, <<S1b>>>>,
      <<1, <<P3>>, <<>>>> }

Records ==
    { Record(c, UniDict(n, b[1], b[2], b[3])) :
        c \in Countries, n \in UniNames, b \in Bodies }

----------------------------------------------------------------------------
(* save_university_data (lines 353-404) *)

\* universities_data.json: `exists` says whether the file is there, `parses`
\* whether json.load accepts its text, `doc` the document the text stands for.
\* No file (line 365: FileNotFoundError):
AbsentStore == [exists |-> FALSE, parses |-> FALSE, doc |-> EmptyDoc]

\* A file whose text is not JSON: an empty file, a dump cut short.
UnparsableStore == [exists |-> TRUE, parses |-> FALSE, doc |-> EmptyDoc]

\* Lines 362-366: json.load raises json.JSONDecodeError on such a text; the
\* handler of line 365 names FileNotFoundError only, so the exception leaves
\* the `with json_lock` block and save_university_data.
LoadRaises(file) == file.exists /\ ~file.parses

\* Lines 362-366: json.load of the file; FileNotFoundError gives {}.
LoadStore(file) == IF file.exists THEN file.doc ELSE EmptyDoc

\* A group that is created anew on every call.
WithGroupReset(doc, country) ==
    [c \in DOMAIN doc \cup {country} |->
        IF c = country THEN [u \in {} |-> {}] ELSE doc[c]]

\* Lines 368-369: create the country's group when it is missing.
WithGroup(doc, country) ==
    IF country \in DOMAIN doc THEN doc
    ELSE doc @@ (country :> [u \in {} |-> {}])

\* Lines 372-379: the entity as first stored.
NewEntity(uni) ==
    [Overview |-> uni.overview,
     World_Ranking |-> uni.world_rank,
     Entry_Requirements |-> uni.entry_requirements,
     ScholarShips_Funding |-> uni.scholarships_and_funding,
     Programs |-> uni.programs,
     available_scholarships |-> uni.available_scholarships]

\* A merge that appends every new entry, present or not.
MergeListNoFilter(existing, new) == existing \o new

\* A merge that puts the new entries in front of the existing ones.
MergeListNewFirst(existing, new) ==
    SelectSeq(new, LAMBDA x : ~InSeq(x, existing)) \o existing

\* Lines 386-389 and 395-398: existing + [x for x in new if x not in existing];
\* `not in` compares whole dicts.
MergeList(existing, new) ==
    existing \o SelectSeq(new, LAMBDA x : ~InSeq(x, existing))

\* A merge that also takes the scalar fields of the new record.
MergeEntityOverwrite(old, uni) ==
    [NewEntity(uni) EXCEPT
        !.Programs = MergeList(old.Programs, uni.programs),
        !.available_scholarships =
            MergeList(old.available_scholarships, uni.available_scholarships)]

\* Lines 381-399: merge into an entity already stored.
MergeEntity(old, uni) ==
    [old EXCEPT !.Programs = MergeList(old.Programs, uni.programs),
                !.available_scholarships =
                    MergeList(old.available_scholarships,
                              uni.available_scholarships)]

\* Lines 358-399: the document after merging record r into existing_data.
MergeRecord(doc, r) ==
    LET country == r.location
        name == r.universities.university_name
        d == WithGroup(doc, country)
        group == d[country]
        entity == IF name \in DOMAIN group
                  THEN MergeEntity(group[name], r.universities)
                  ELSE NewEntity(r.universities)
        newGroup == [u \in DOMAIN group \cup {name} |->
                        IF u = name THEN entity ELSE group[u]]
    IN  [c \in DOMAIN d |-> IF c = country THEN newGroup ELSE d[c]]

\* Lines 401-402: json.dump of the whole document to the file.
DumpStore(doc) == [exists |-> TRUE, parses |-> TRUE, doc |-> doc]

\* Lines 353-404 run by one thread with the lock uncontended: the file
\* afterwards.  When json.load raises nothing is written.
SaveUniversityData(file, r) ==
    IF r = None \/ LoadRaises(file) THEN file
    ELSE DumpStore(MergeRecord(LoadStore(file), r))

----------------------------------------------------------------------------
(* SpecPersist: save_university_data called by the threads of Callers *)

\* Lines 353-359: the call; `if not university_data: return`.
PersistCall(c) ==
    /\ ppc[c] = "idle"
    /\ \E r \in Records \cup {None} :
         /\ parg' = [parg EXCEPT ![c] = r]
         /\ ppc' = [ppc EXCEPT ![c] = IF r = None THEN "done" ELSE "acquire"]
    /\ UNCHANGED <<pdata, store, json_lock, crawlVars, pages_call>>

\* A lock taken without waiting for its holder.
PersistAcquireNoWait(c) ==
    /\ ppc[c] = "acquire"
    /\ json_lock' = c
    /\ ppc' = [ppc EXCEPT ![c] = "read"]
    /\ UNCHANGED <<parg, pdata, store, crawlVars, pages_call>>

\* Line 361: `with json_lock:` blocks until the lock is free.
PersistAcquire(c) ==
    /\ ppc[c] = "acquire"
    /\ json_lock = 0
    /\ json_lock' = c
    /\ ppc' = [ppc EXCEPT ![c] = "read"]
    /\ UNCHANGED <<parg, pdata, store, crawlVars, pages_call>>

\* A critical section that ends after the load.
PersistReadThenUnlock(c) ==
    /\ ppc[c] = "read"
    /\ pdata' = [pdata EXCEPT ![c] = LoadStore(store)]
    /\ json_lock' = 0
    /\ ppc' = [ppc EXCEPT ![c] = "write"]
    /\ UNCHANGED <<parg, store, crawlVars, pages_call>>

\* Lines 362-366: existing_data = json.load(f), or {} when the file is
\* absent.  When json.load raises, the exception unwinds towards the end of
\* the `with json_lock` block.
PersistRead(c) ==
    /\ ppc[c] = "read"
    /\ IF LoadRaises(store)
       THEN /\ pdata' = pdata
            /\ ppc' = [ppc EXCEPT ![c] = "unwind"]
       ELSE /\ pdata' = [pdata EXCEPT ![c] = LoadStore(store)]
            /\ ppc' = [ppc EXCEPT ![c] = "write"]
    /\ UNCHANGED <<parg, store, json_lock, crawlVars, pages_call>>

\* Lines 368-402: merge into existing_data and write the document back.
PersistWrite(c) ==
    /\ ppc[c] = "write"
    /\ store' = DumpStore(MergeRecord(pdata[c], parg[c]))
    /\ pdata' = [pdata EXCEPT ![c] = EmptyDoc]
    /\ ppc' = [ppc EXCEPT ![c] = "release"]
    /\ UNCHANGED <<parg, json_lock, crawlVars, pages_call>>

\* Lines 401-402 when the operating system refuses: open(..., 'w') raises and
\* the file is as it was, or a write inside json.dump raises after open has
\* truncated the file, which leaves a text that is not JSON.  The exception
\* unwinds towards the end of the `with json_lock` block.
PersistWriteFails(c) ==
    /\ ppc[c] = "write"
    /\ store' \in {store, UnparsableStore}
    /\ pdata' = [pdata EXCEPT ![c] = EmptyDoc]
    /\ ppc' = [ppc EXCEPT ![c] = "unwind"]
    /\ UNCHANGED <<parg, json_lock, crawlVars, pages_call>>

\* A lock released by hand at the end of the function only: an exception
\* leaves it held.
PersistReleaseOnReturn(c) ==
    /\ ppc[c] \in {"release", "unwind"}
    /\ json_lock' = IF ppc[c] = "unwind" THEN json_lock ELSE 0
    /\ ppc' = [ppc EXCEPT ![c] = IF ppc[c] = "unwind" THEN "failed" ELSE "done"]
    /\ UNCHANGED <<parg, pdata, store, crawlVars, pages_call>>

\* Line 404 and the end of the `with` block: the lock is released, on return
\* and when an exception leaves the block; the call then has returned
\* ("done") or has raised to its caller ("failed").
PersistRelease(c) ==
    /\ ppc[c] \in {"release", "unwind"}
    /\ json_lock' = 0
    /\ ppc' = [ppc EXCEPT ![c] = IF ppc[c] = "unwind" THEN "failed" ELSE "done"]
    /\ UNCHANGED <<parg, pdata, store, crawlVars, pages_call>>

NextPersist ==
    \E c \in Callers :
        \/ PersistCall(c)
        \/ PersistAcquire(c)
        \/ PersistRead(c)
        \/ PersistWrite(c)
        \/ PersistRelease(c)

----------------------------------------------------------------------------
(* The site: what the pages hold.  Link i of a listing page leads to the   *)
(* detail page of course CoursePool[i]; links 1 and 2 belong to university *)
(* "X", the others to "Y".                                                 *)

CoursePool == <<"CS101", "CS102", "CS103", "CS104", "CS105">>

DetailPage(i) ==
    [university_name |-> IF i <= 2 THEN "X" ELSE "Y",
     location |-> "UK",
     new_program |-> Prog(CoursePool[i], "d1")]

----------------------------------------------------------------------------
(* The session pool (lines 23, 38-48) and make_request (lines 50-54) *)

\* A queue filled with one session fewer.
InitialPoolShort == [i \in 1..(MAX_WORKERS - 1) |-> i]

\* Lines 39-40: MAX_WORKERS sessions are put into the queue.
InitialPool == [i \in 1..MAX_WORKERS |-> i]

\* Lines 50-54: one session.get, then raise_for_status; `up` says whether the
\* target answers with a success status.  No attempt is repeated.
make_request(up) == [ok |-> up, attempts |-> 1]

\* Line 273: `with university_cache.get(name, {}) as ...` enters a dict as a
\* context manager.  A dict has no __enter__/__exit__: the statement raises
\* TypeError whatever the cache holds.
WithDictRaises(cache, name) == TRUE

----------------------------------------------------------------------------
(* Detail-page tasks: process_university_parallel / process_university *)

\* A work item as submitted (line 428); `page` is the listing page whose
\* iteration submitted it, `waiting` the scholarship links submitted to the
\* sub-pool (lines 261-264) that no sub-pool thread has taken yet, `running`
\* the sub-pool threads inside process_scholarship_page.
NewTask ==
    [pc |-> "queued", page |-> 0, session |-> 0, fetched |-> FALSE,
     attempts |-> 0,
     waiting |-> 0, running |-> 0,
     path |-> "none", result |-> None, saved |-> FALSE]

TaskIds == DOMAIN tasks

\* Tasks an executor thread is working on (lines 426-431).
InFlight(ts) ==
    {t \in DOMAIN ts : ts[t].pc \notin {"queued", "done", "collected"}}

\* Lines 426-431: ThreadPoolExecutor(max_workers=MAX_WORKERS) hands the queued
\* work items, oldest first, to its threads: a free thread takes the next item
\* and calls process_university_parallel.  Taking an item touches nothing but
\* the executor's own queue, so it is part of the step that frees the thread
\* (or of the submit).
RECURSIVE Schedule(_)
Schedule(ts) ==
    LET queued == {t \in DOMAIN ts : ts[t].pc = "queued"} IN
    IF queued = {} \/ Cardinality(InFlight(ts)) >= MAX_WORKERS
    THEN ts
    ELSE LET t == CHOOSE q \in queued : \A u \in queued : q <= u
         IN  Schedule([ts EXCEPT ![t].pc = "get_session"])

\* Line 346: session = get_session(); Queue.get blocks while the queue is empty.
TaskGetSession(t) ==
    /\ t \in TaskIds
    /\ tasks[t].pc = "get_session"
    /\ session_store /= <<>>
    /\ tasks' = [tasks EXCEPT ![t].pc = "fetch",
                              ![t].session = Head(session_store)]
    /\ session_store' = Tail(session_store)
    /\ UNCHANGED <<Base_page, mainPc, mainSession, mainExc, mainAttempts,
                   university_cache, store, json_lock, persistVars,
                   pages_call>>

\* Lines 238-257: fetch and parse the detail page, then get_scholarship_links
\* (lines 168-211) on the same session.  A failed request for the detail page
\* raises into the handler of lines 339-341, which returns None.  The fetch
\* failures inside get_scholarship_links are absorbed (lines 207-209, 231-233):
\* it returns a list of n links, n = 0 when nothing is found.
TaskFetchDetail(t) ==
    /\ t \in TaskIds
    /\ tasks[t].pc = "fetch"
    /\ \E up \in BOOLEAN, n \in 0..MaxScholLinks :
         LET r == make_request(up) IN
         /\ ~r.ok => n = 0
         /\ tasks' = [tasks EXCEPT ![t].attempts = r.attempts,
                                   ![t].fetched = r.ok,
                                   ![t].waiting = n,
                                   ![t].pc = IF r.ok THEN "subpool" ELSE "release"]
    /\ UNCHANGED <<Base_page, mainPc, mainSession, mainExc, mainAttempts,
                   session_store, university_cache, store, json_lock, persistVars,
                   pages_call>>

\* A sub-pool that starts a thread for every link submitted.
SubStartNoCeiling(t) ==
    /\ t \in TaskIds
    /\ tasks[t].pc = "subpool"
    /\ tasks[t].waiting > 0
    /\ tasks' = [tasks EXCEPT ![t].waiting = @ - 1, ![t].running = @ + 1]
    /\ UNCHANGED <<Base_page, mainPc, mainSession, mainExc, mainAttempts,
                   session_store, university_cache, store, json_lock, persistVars,
                   pages_call>>

\* Lines 260-264: a sub-pool thread takes the next scholarship link and calls
\* process_scholarship_page(link, session) with the task's session.
SubStart(t) ==
    /\ t \in TaskIds
    /\ tasks[t].pc = "subpool"
    /\ tasks[t].waiting > 0
    /\ tasks[t].running < SUB_WORKERS
    /\ tasks' = [tasks EXCEPT ![t].waiting = @ - 1, ![t].running = @ + 1]
    /\ UNCHANGED <<Base_page, mainPc, mainSession, mainExc, mainAttempts,
                   session_store, university_cache, store, json_lock, persistVars,
                   pages_call>>

\* Lines 134-166 and 266-271: a sub-pool thread's request ends, with a
\* scholarship or with an exception; as_completed hands the future to the
\* task, which appends the scholarship to available_scholarships_list or logs
\* the error (lines 268-271).  The list is local to the task and nothing reads
\* it before line 273 raises, so it is not kept.
SubFinish(t) ==
    /\ t \in TaskIds
    /\ tasks[t].pc = "subpool"
    /\ tasks[t].running > 0
    /\ \E up \in BOOLEAN :
         LET r == make_request(up) IN
         tasks' = [tasks EXCEPT ![t].running = @ - 1]
    /\ UNCHANGED <<Base_page, mainPc, mainSession, mainExc, mainAttempts,
                   session_store, university_cache, store, json_lock, persistVars,
                   pages_call>>

\* Lines 264-273, 339-341: every future is done, the sub-pool's `with` block
\* ends and the task reaches the `with` statement of line 273, which raises
\* TypeError; the handler logs it and process_university returns None, which
\* ends the life of its locals.  Lines 274-337 (cache hit, first encounter) are
\* never reached.
TaskWithCache(t) ==
    /\ t \in TaskIds
    /\ tasks[t].pc = "subpool"
    /\ tasks[t].waiting = 0
    /\ tasks[t].running = 0
    /\ WithDictRaises(university_cache, DetailPage(t).university_name)
    /\ tasks' = [tasks EXCEPT ![t].path = "raised",
                              ![t].result = None,
                              ![t].pc = "release"]
    /\ UNCHANGED <<Base_page, mainPc, mainSession, mainExc, mainAttempts,
                   session_store, university_cache, store, json_lock, persistVars,
                   pages_call>>

\* A session given back only when the task produced a page.
TaskReturnSessionOnSuccess(t) ==
    /\ t \in TaskIds
    /\ tasks[t].pc = "release"
    /\ session_store' = IF tasks[t].fetched
                        THEN Append(session_store, tasks[t].session)
                        ELSE session_store
    /\ tasks' = Schedule([tasks EXCEPT ![t].session = 0, ![t].pc = "done"])
    /\ UNCHANGED <<Base_page, mainPc, mainSession, mainExc, mainAttempts,
                   university_cache, store, json_lock, persistVars,
                   pages_call>>

\* Lines 350-351: finally: return_session(session); the future is done.
TaskReturnSession(t) ==
    /\ t \in TaskIds
    /\ tasks[t].pc = "release"
    /\ session_store' = Append(session_store, tasks[t].session)
    /\ tasks' = Schedule([tasks EXCEPT ![t].session = 0, ![t].pc = "done"])
    /\ UNCHANGED <<Base_page, mainPc, mainSession, mainExc, mainAttempts,
                   university_cache, store, json_lock, persistVars,
                   pages_call>>

----------------------------------------------------------------------------
(* scrape_universities (lines 406-449) *)

NoTasks == [t \in {} |-> NewTask]

\* Lines 411-412: the loop test holds; session = get_session().
MainGetSession ==
    /\ mainPc = "loop"
    /\ Base_page < LastPage
    /\ session_store /= <<>>
    /\ mainSession' = Head(session_store)
    /\ session_store' = Tail(session_store)
    /\ mainPc' = "fetch"
    /\ UNCHANGED <<Base_page, mainExc, mainAttempts, university_cache, tasks,
                   store, json_lock, persistVars,
                   pages_call>>

\* Lines 411, 449: the loop test fails and scrape_universities returns.
MainLoopExit ==
    /\ mainPc = "loop"
    /\ Base_page >= LastPage
    /\ mainPc' = "finished"
    /\ UNCHANGED <<Base_page, mainSession, mainExc, mainAttempts, session_store,
                   university_cache, tasks, store, json_lock, persistVars,
                   pages_call>>

\* Lines 414-431: fetch the listing page, take its n distinct course links and
\* submit one task per link.  A failed request raises out of the try block,
\* which has no except clause: control goes to the finally of line 446.
MainFetchListing ==
    /\ mainPc = "fetch"
    /\ \E up \in BOOLEAN, n \in 0..MaxLinks :
         LET r == make_request(up) IN
         /\ mainAttempts' = r.attempts
         /\ IF r.ok
            THEN /\ tasks' = Schedule([t \in 1..n |->
                                       [NewTask EXCEPT !.page = Base_page]])
                 /\ mainPc' = "collect"
                 /\ mainExc' = FALSE
            ELSE /\ tasks' = tasks
                 /\ mainPc' = "finally"
                 /\ mainExc' = TRUE
    /\ UNCHANGED <<Base_page, mainSession, session_store, university_cache,
                   store, json_lock, persistVars,
                   pages_call>>

\* Lines 434-441: as_completed yields a finished future; its record, when
\* there is one, is saved by the main thread (save_university_data takes and
\* releases json_lock within the call).
MainCollect(t) ==
    /\ mainPc = "collect"
    /\ t \in TaskIds
    /\ tasks[t].pc = "done"
    /\ json_lock = 0
    /\ store' = SaveUniversityData(store, tasks[t].result)
    /\ tasks' = [tasks EXCEPT ![t].pc = "collected",
                              ![t].saved = (tasks[t].result /= None)]
    /\ UNCHANGED <<Base_page, mainPc, mainSession, mainExc, mainAttempts,
                   session_store, university_cache, json_lock, persistVars,
                   pages_call>>

\* An executor left without waiting for its futures.
MainAdvanceEarly ==
    /\ mainPc = "collect"
    /\ Base_page' = Base_page + 1
    /\ tasks' = tasks
    /\ mainPc' = "finally"
    /\ UNCHANGED <<mainSession, mainExc, mainAttempts, session_store,
                   university_cache, store, json_lock, persistVars,
                   pages_call>>

\* Lines 431-445: every future has been handled, the executor's `with` block
\* ends; sleep 15 seconds, Base_page += 1.
MainAdvance ==
    /\ mainPc = "collect"
    /\ \A t \in TaskIds : tasks[t].pc = "collected"
    /\ Base_page' = Base_page + 1
    /\ tasks' = NoTasks
    /\ mainPc' = "finally"
    /\ UNCHANGED <<mainSession, mainExc, mainAttempts, session_store,
                   university_cache, store, json_lock, persistVars,
                   pages_call>>

\* Lines 446-447: finally: return_session(session).  A pending exception then
\* leaves scrape_universities (and the program, line 452); otherwise the loop
\* goes on.
MainFinally ==
    /\ mainPc = "finally"
    /\ session_store' = Append(session_store, mainSession)
    /\ mainSession' = 0
    /\ mainPc' = IF mainExc THEN "crashed" ELSE "loop"
    /\ UNCHANGED <<Base_page, mainExc, mainAttempts, university_cache, tasks,
                   store, json_lock, persistVars,
                   pages_call>>

----------------------------------------------------------------------------
(* get_total_scholarship_pages (lines 213-233) *)

\* The text of an anchor is a sequence of characters.
Digits == <<"0", "1", "2", "3", "4", "5", "6", "7", "8", "9">>

IsDigit(ch) == \E i \in 1..10 : Digits[i] = ch

DigitValue(ch) == (CHOOSE i \in 1..10 : Digits[i] = ch) - 1

\* Line 225: int(text) raises ValueError unless the text is a numeral (the
\* texts drawn here carry no sign, blank or underscore).
IntParses(text) ==
    text /= <<>> /\ \A i \in 1..Len(text) : IsDigit(text[i])

\* Line 225: int(text), decimal.
RECURSIVE IntValue(_)
IntValue(text) ==
    IF text = <<>> THEN 0
    ELSE IntValue(SubSeq(text, 1, Len(text) - 1)) * 10
           + DigitValue(text[Len(text)])

\* Lines 222-227: `pages`, the numbers of the anchors whose text parses, in
\* document order.
RECURSIVE ParsedPages(_)
ParsedPages(anchors) ==
    IF anchors = <<>> THEN <<>>
    ELSE (IF IntParses(Head(anchors)) THEN <<IntValue(Head(anchors))>>
          ELSE <<>>) \o ParsedPages(Tail(anchors))

\* Line 229: max(pages), pages not empty.
RECURSIVE MaxOf(_)
MaxOf(pages) ==
    IF Len(pages) = 1 THEN pages[1]
    ELSE LET m == MaxOf(Tail(pages))
         IN  IF Head(pages) >= m THEN Head(pages) ELSE m

\* The total read off the last numbered control.
get_total_scholarship_pages_last(up, anchors) ==
    IF ~make_request(up).ok \/ anchors = <<>> THEN 1
    ELSE LET pages == ParsedPages(anchors)
         IN  IF pages = <<>> THEN 1 ELSE pages[Len(pages)]

\* Lines 213-233: `up` says whether the request of line 216 succeeds,
\* `anchors` are the texts of the <a data-testid="paginationClick"> elements
\* of the page.  Any exception gives 1 (lines 231-233).
get_total_scholarship_pages(up, anchors) ==
    IF ~make_request(up).ok THEN 1
    ELSE IF anchors = <<>> THEN 1
    ELSE LET pages == ParsedPages(anchors)
         IN  IF pages = <<>> THEN 1 ELSE MaxOf(pages)

\* Anchor texts as get_text(strip=True) gives them: "", "1", "2", "7", "12",
\* "Next".
AnchorTexts ==
    { <<>>, <<"1">>, <<"2">>, <<"7">>, <<"1", "2">>, <<"N", "e", "x", "t">> }

\* Pagination controls advertising the pages 1..7.
OneToSeven == [i \in 1..7 |-> <<Digits[i + 1]>>]

RECURSIVE SeqsUpTo(_, _)
SeqsUpTo(S, n) ==
    IF n = 0 THEN {<<>>}
    ELSE LET shorter == SeqsUpTo(S, n - 1)
         IN  shorter \cup {Append(q, x) : q \in shorter, x \in S}

\* The pagination markup of the pages the function is called on.
PaginationMarkups == SeqsUpTo(AnchorTexts, MaxControls) \cup {OneToSeven}

\* No call of get_total_scholarship_pages under way.
NoPagesCall == [pc |-> "none", up |-> FALSE, anchors |-> <<>>, total_pages |-> 0]

\* Line 187: total_pages = get_total_scholarship_pages(base_url, session).
TotalPagesReturn ==
    /\ pages_call.pc = "called"
    /\ pages_call' =
         [pages_call EXCEPT
            !.pc = "returned",
            !.total_pages =
                get_total_scholarship_pages(pages_call.up, pages_call.anchors)]
    /\ UNCHANGED <<store, json_lock, crawlVars, persistVars>>

NextPages == TotalPagesReturn

----------------------------------------------------------------------------
(* Specifications *)

Init ==
    /\ Base_page = FirstPage
    /\ mainPc = "loop"
    /\ mainSession = 0
    /\ mainExc = FALSE
    /\ mainAttempts = 0
    /\ session_store = InitialPool
    /\ university_cache = [n \in {} |-> {}]
    /\ tasks = NoTasks
    /\ store = AbsentStore
    /\ pages_call = NoPagesCall
    /\ json_lock = 0
    /\ ppc = [c \in Callers |-> "idle"]
    /\ parg = [c \in Callers |-> None]
    /\ pdata = [c \in Callers |-> EmptyDoc]

Next ==
    \/ MainGetSession
    \/ MainLoopExit
    \/ MainFetchListing
    \/ MainAdvance
    \/ MainFinally
    \/ \E t \in 1..MaxLinks :
         \/ MainCollect(t)
         \/ TaskGetSession(t)
         \/ TaskFetchDetail(t)
         \/ SubStart(t)
         \/ TaskWithCache(t)
         \/ TaskReturnSession(t)
         \/ SubFinish(t)

Spec == Init /\ [][Next]_vars

\* The threads are scheduled by the operating system and every request ends
\* (it returns or fails): a step of the main thread, of a task's thread or of
\* a sub-pool thread that stays possible is taken in the end.
Fairness ==
    /\ WF_vars(MainGetSession)
    /\ WF_vars(MainLoopExit)
    /\ WF_vars(MainFetchListing)
    /\ WF_vars(MainAdvance)
    /\ WF_vars(MainFinally)
    /\ \A t \in 1..MaxLinks :
         /\ WF_vars(MainCollect(t))
         /\ WF_vars(TaskGetSession(t))
         /\ WF_vars(TaskFetchDetail(t))
         /\ WF_vars(SubStart(t))
         /\ WF_vars(SubFinish(t))
         /\ WF_vars(TaskWithCache(t))
         /\ WF_vars(TaskReturnSession(t))

\* The crawl under fair scheduling.
SpecFair == Init /\ [][Next]_vars /\ Fairness

SpecPersist == Init /\ [][NextPersist]_vars

\* The files the program can find when it starts: none, one that a run cut
\* short has left unparsable, one that an earlier run has written.
StartStores ==
    {AbsentStore, UnparsableStore, DumpStore(EmptyDoc),
     DumpStore(MergeRecord(EmptyDoc,
                           Record("UK", UniDict("X", 1, <<P1, P2>>, <<S1>>))))}

\* Init with the file as found at start.
InitAnyStore ==
    /\ store \in StartStores
    /\ pages_call = NoPagesCall
    /\ json_lock = 0
    /\ ppc = [c \in Callers |-> "idle"]
    /\ parg = [c \in Callers |-> None]
    /\ pdata = [c \in Callers |-> EmptyDoc]
    /\ Base_page = FirstPage
    /\ mainPc = "loop"
    /\ mainSession = 0
    /\ mainExc = FALSE
    /\ mainAttempts = 0
    /\ session_store = InitialPool
    /\ university_cache = [n \in {} |-> {}]
    /\ tasks = NoTasks

\* save_university_data called by the threads of Callers on any such file.
SpecPersistAnyStore == InitAnyStore /\ [][NextPersist]_vars

\* A call of get_total_scholarship_pages on any markup, the request
\* succeeding or not.
InitPages ==
    /\ pages_call \in
         {[pc |-> "called", up |-> u, anchors |-> a, total_pages |-> 0] :
            u \in BOOLEAN, a \in PaginationMarkups}
    /\ store = AbsentStore
    /\ json_lock = 0
    /\ ppc = [c \in Callers |-> "idle"]
    /\ parg = [c \in Callers |-> None]
    /\ pdata = [c \in Callers |-> EmptyDoc]
    /\ Base_page = FirstPage
    /\ mainPc = "loop"
    /\ mainSession = 0
    /\ mainExc = FALSE
    /\ mainAttempts = 0
    /\ session_store = InitialPool
    /\ university_cache = [n \in {} |-> {}]
    /\ tasks = NoTasks

\* save_university_data with reads and writes of the file that can fail.
NextPersistFaults ==
    \/ NextPersist
    \/ \E c \in Callers : PersistWriteFails(c)

SpecPersistFaults == InitAnyStore /\ [][NextPersistFaults]_vars

SpecPages == InitPages /\ [][NextPages]_vars

----------------------------------------------------------------------------
(* Helpers of the properties *)

Stored(country, name) ==
    /\ store.exists
    /\ country \in DOMAIN store.doc
    /\ name \in DOMAIN store.doc[country]

Entity(country, name) == store.doc[country][name]

AllIn(new, existing) == \A i \in 1..Len(new) : InSeq(new[i], existing)

\* Every caller of SpecPersist has returned.
AllCallersDone == \A c \in Callers : ppc[c] = "done"

\* The batch of the current listing page has been collected (lines 434-441).
BatchCollected ==
    /\ mainPc = "collect"
    /\ \A t \in TaskIds : tasks[t].pc = "collected"

----------------------------------------------------------------------------
(* C1 - C10 *)

\* C1: when the callers persist concurrently, no persist's update is lost:
\* once a caller has returned, its entity is in the store with every program
\* and scholarship of its record, under every interleaving.
C1_NoLostUpdate ==
    \A c \in Callers :
        (ppc[c] = "done" /\ parg[c] /= None) =>
            /\ Stored(parg[c].location, parg[c].universities.university_name)
            /\ LET e == Entity(parg[c].location,
                               parg[c].universities.university_name)
               IN  /\ AllIn(parg[c].universities.programs, e.Programs)
                   /\ AllIn(parg[c].universities.available_scholarships,
                            e.available_scholarships)

\* C1 witness: all callers have persisted pairwise distinct entities of one
\* group and the store holds every one of them.
C1_Witness ==
    /\ AllCallersDone
    /\ \A c \in Callers : parg[c] /= None /\ parg[c].location = "UK"
    /\ \A c, d \in Callers :
         c /= d => parg[c].universities.university_name
                     /= parg[d].universities.university_name
    /\ \A c \in Callers : Stored("UK", parg[c].universities.university_name)

\* C2: the read-modify-write cycle is one critical section: at most one caller
\* is between its read of the store and its write-back, and a caller about to
\* read or to write the store holds json_lock.
C2_CriticalSection ==
    /\ Cardinality({c \in Callers : ppc[c] \in {"read", "write"}}) <= 1
    /\ \A c \in Callers :
         ppc[c] \in {"read", "write", "release"} => json_lock = c

\* C2 witness: a caller has read the store and not yet written it back while
\* another caller waits for the lock.
C2_Witness ==
    \E c, d \in Callers :
        /\ c /= d
        /\ ppc[c] = "write"
        /\ ppc[d] = "acquire"

\* No two entries of the sequence share the sub-identity field.
UniqueTitles(progs) ==
    \A i, j \in 1..Len(progs) :
        i /= j => progs[i].course_title /= progs[j].course_title

UniqueScholTitles(schols) ==
    \A i, j \in 1..Len(schols) : i /= j => schols[i].title /= schols[j].title

\* C3: after any sequence of persist calls from an empty store, no entity's
\* Programs holds two entries with the same course_title and no entity's
\* available_scholarships holds two entries with the same title.
C3_UniqueSubIdentity ==
    \A country \in DOMAIN store.doc :
        \A name \in DOMAIN store.doc[country] :
            /\ UniqueTitles(Entity(country, name).Programs)
            /\ UniqueScholTitles(Entity(country, name).available_scholarships)

\* C4: a listing page with the two detail links of university "X", courses
\* CS101 and CS102, both fetched: once both tasks are complete and collected,
\* the store's entry for "X" holds both programs.
C4_EndToEnd ==
    ( /\ BatchCollected
      /\ TaskIds = {1, 2}
      /\ \A t \in TaskIds : tasks[t].fetched )
    => /\ Stored("UK", "X")
       /\ InSeq(DetailPage(1).new_program, Entity("UK", "X").Programs)
       /\ InSeq(DetailPage(2).new_program, Entity("UK", "X").Programs)

\* C5: of two tasks of one batch that resolve the same university, both with
\* their detail page fetched, one runs the first-encounter path (lines
\* 299-337) and the other the cache-hit path (lines 274-297), once both have
\* returned.
C5_FirstEncounterOnce ==
    \A t, u \in TaskIds :
        ( /\ t /= u
          /\ DetailPage(t).university_name = DetailPage(u).university_name
          /\ tasks[t].fetched /\ tasks[u].fetched
          /\ tasks[t].pc \in {"done", "collected"}
          /\ tasks[u].pc \in {"done", "collected"} )
        => {tasks[t].path, tasks[u].path} = {"first_encounter", "cache_hit"}

\* C6: when the fetch of a listing page fails, the loop of scrape_universities
\* goes on with the same page index: the step that follows the failure leads
\* back to the loop test with Base_page unchanged.
C6_ListingFailureRetries ==
    [][(mainPc = "finally" /\ mainExc)
         => (mainPc' = "loop" /\ Base_page' = Base_page)]_vars

\* C7: a request that fails has been attempted exactly 3 times before the
\* failure is reported to the caller.
C7_ThreeAttempts ==
    /\ mainExc => mainAttempts = 3
    /\ \A t \in TaskIds :
         (tasks[t].attempts > 0 /\ ~tasks[t].fetched) => tasks[t].attempts = 3

\* The threads that hold session s: the main thread, the tasks' threads.
Holders(s) ==
    {h \in {MainThread} \cup TaskIds :
        IF h = MainThread THEN mainSession = s ELSE tasks[h].session = s}

\* The sub-pool threads (task, number) inside a request on session s.
SubUsers(s) ==
    {w \in TaskIds \X (1..MaxScholLinks) :
        tasks[w[1]].session = s /\ w[2] <= tasks[w[1]].running}

\* C8: no session is in use by two threads at once, the main thread, the
\* detail-page workers and the scholarship sub-pool threads included.
C8_SessionExclusive ==
    \A s \in Sessions :
        /\ Cardinality(Holders(s)) <= 1
        /\ Cardinality(SubUsers(s)) <= 1

HeldSessions ==
    {s \in Sessions : Holders(s) /= {}}

\* C9: every acquire is matched by one release on every exit path: each
\* session is either in the pool once or held by one thread, so pool size plus
\* sessions held is MAX_WORKERS; a task that has not acquired or has returned
\* holds none; and when no listing-page iteration is in progress the pool
\* holds all MAX_WORKERS sessions.
C9_SessionsConserved ==
    /\ Len(session_store) + Cardinality(HeldSessions) = MAX_WORKERS
    /\ \A s \in Sessions :
         Cardinality({i \in 1..Len(session_store) : session_store[i] = s})
           + Cardinality(Holders(s)) = 1
    /\ \A t \in TaskIds :
         tasks[t].pc \in {"queued", "get_session", "done", "collected"}
           => tasks[t].session = 0
    /\ mainPc \in {"loop", "finished", "crashed"}
         => (Len(session_store) = MAX_WORKERS /\ TaskIds = {})

\* C9 witness: one task has returned after a failed fetch, another after a
\* fetched page, the main thread still holds its session and the others are
\* back in the pool.
C9_Witness ==
    /\ mainSession /= 0
    /\ \E t, u \in TaskIds :
         /\ tasks[t].pc = "done" /\ ~tasks[t].fetched
         /\ tasks[u].pc = "done" /\ tasks[u].fetched
    /\ Len(session_store) = MAX_WORKERS - 1

\* C10: the failure of one detail-page task does not abort the batch: the
\* failing task returns no record and is not persisted, and every other task
\* of the batch has its record persisted once the batch is collected.
C10_BatchSurvivesFailure ==
    ( /\ BatchCollected
      /\ \E f \in TaskIds : ~tasks[f].fetched )
    => \A t \in TaskIds :
         IF tasks[t].fetched
         THEN /\ tasks[t].saved
              /\ Stored(DetailPage(t).location, DetailPage(t).university_name)
              /\ InSeq(DetailPage(t).new_program,
                       Entity(DetailPage(t).location,
                              DetailPage(t).university_name).Programs)
         ELSE tasks[t].result = None /\ ~tasks[t].saved

----------------------------------------------------------------------------
(* C11 - C20 *)

\* No call of save_university_data is under way: the store is as the calls
\* made so far have left it.  Every store the callers produce is met in such a
\* state.
BetweenCalls == \A c \in Callers : ppc[c] \in {"idle", "done"}

\* C11: persisting the same record for the same identity twice leaves the
\* store as persisting it once does, for every record and every store the
\* callers can have produced; and when every caller that persisted has
\* persisted one and the same record, the store is the one a single persist
\* of that record into the absent store gives.
C11_Idempotent ==
    /\ BetweenCalls =>
         \A r \in Records :
            LET once == SaveUniversityData(store, r)
            IN  SaveUniversityData(once, r) = once
    /\ \A c \in Callers :
         ( /\ AllCallersDone
           /\ parg[c] /= None
           /\ \A d \in Callers : parg[d] \in {None, parg[c]} )
         => store = SaveUniversityData(AbsentStore, parg[c])

\* C11 witness: two callers have persisted the same record, one after the
\* other, and the store holds what one persist gives.
C11_Witness ==
    /\ AllCallersDone
    /\ \E c, d \in Callers :
         /\ c /= d
         /\ parg[c] /= None
         /\ parg[c] = parg[d]
         /\ Len(parg[c].universities.programs) = 2
         /\ store = SaveUniversityData(AbsentStore, parg[c])

\* The entries of `new`, in the order of `new`, that `existing` does not hold.
RECURSIVE NotPresent(_, _)
NotPresent(existing, new) ==
    IF new = <<>> THEN <<>>
    ELSE (IF InSeq(Head(new), existing) THEN <<>> ELSE <<Head(new)>>)
           \o NotPresent(existing, Tail(new))

\* C12: a persist for an entity already stored keeps the existing programs
\* and scholarships in their order and appends, in the new record's order,
\* only the entries that are not already present; existing [P1, P2] merged
\* with [P2, P3] gives [P1, P2, P3].
C12_MergeOrder ==
    /\ \A r \in {x \in Records : BetweenCalls} :
         LET country == r.location
             name == r.universities.university_name
         IN  Stored(country, name) =>
               LET old == Entity(country, name)
                   new == SaveUniversityData(store, r).doc[country][name]
               IN  /\ new.Programs =
                        old.Programs
                          \o NotPresent(old.Programs, r.universities.programs)
                   /\ new.available_scholarships =
                        old.available_scholarships
                          \o NotPresent(old.available_scholarships,
                                        r.universities.available_scholarships)
    /\ \A c, d \in Callers :
         ( /\ AllCallersDone
           /\ c /= d
           /\ parg[c] /= None /\ parg[d] /= None
           /\ parg[c].location = parg[d].location
           /\ parg[c].universities.university_name
                = parg[d].universities.university_name
           /\ parg[c].universities.programs = <<P1, P2>>
           /\ parg[d].universities.programs = <<P2, P3>>
           /\ \A e \in Callers : e \in {c, d} \/ parg[e] = None )
         => Entity(parg[c].location,
                   parg[c].universities.university_name).Programs
              \in {<<P1, P2, P3>>, <<P2, P3, P1>>}

\* C12 witness: [P1, P2] was stored first and [P2, P3] merged into it.
C12_Witness ==
    /\ AllCallersDone
    /\ Stored("UK", "X")
    /\ Entity("UK", "X").Overview = <<"overview", 1>>
    /\ Entity("UK", "X").Programs = <<P1, P2, P3>>

\* The four scalar fields of a stored entity.
Scalars(e) ==
    <<e.Overview, e.World_Ranking, e.Entry_Requirements,
      e.ScholarShips_Funding>>

\* C17: the scalar fields are first-write-wins: a persist for an entity
\* already stored leaves its Overview, World Ranking, Entry Requirements and
\* ScholarShips & Funding as they were, and a persist leaves every other
\* entity and every other group as it was.
C17_FirstWriteWins ==
    \A r \in {x \in Records : BetweenCalls} :
        LET after == SaveUniversityData(store, r).doc
        IN  \A country \in DOMAIN store.doc :
              /\ country \in DOMAIN after
              /\ country /= r.location => after[country] = store.doc[country]
              /\ \A name \in DOMAIN store.doc[country] :
                    /\ name \in DOMAIN after[country]
                    /\ Scalars(after[country][name])
                         = Scalars(Entity(country, name))
                    /\ <<country, name>>
                         /= <<r.location, r.universities.university_name>>
                       => after[country][name] = Entity(country, name)

\* C17 witness: two callers have persisted the same entity with different
\* scalar fields; the entity holds the scalar fields of the first and the
\* programs of both.
C17_Witness ==
    /\ AllCallersDone
    /\ \E c, d \in Callers :
         /\ parg[c] /= None /\ parg[d] /= None
         /\ parg[c].location = parg[d].location
         /\ parg[c].universities.university_name
              = parg[d].universities.university_name
         /\ parg[c].universities.overview /= parg[d].universities.overview
         /\ Entity(parg[c].location,
                   parg[c].universities.university_name).Overview
              = parg[c].universities.overview
         /\ Len(Entity(parg[c].location,
                       parg[c].universities.university_name).Programs) = 3

IsPrefix(s, t) == Len(s) <= Len(t) /\ SubSeq(t, 1, Len(s)) = s

\* C20: a persist only adds: in every step every group and every entity key
\* of the store is still there afterwards, and each entity's Programs and
\* available_scholarships before the step are a prefix of those after it.
C20_OnlyAdds ==
    [][ /\ store.exists => store'.exists
        /\ \A country \in DOMAIN store.doc :
             /\ country \in DOMAIN store'.doc
             /\ \A name \in DOMAIN store.doc[country] :
                   /\ name \in DOMAIN store'.doc[country]
                   /\ IsPrefix(store.doc[country][name].Programs,
                               store'.doc[country][name].Programs)
                   /\ IsPrefix(
                        store.doc[country][name].available_scholarships,
                        store'.doc[country][name].available_scholarships) ]_vars

\* C20 witness: a second persist has grown both lists of an entity stored
\* by the first: the programs from two to three, the scholarships from one
\* to two.
C20_Witness ==
    /\ \E c \in Callers :
         /\ ppc[c] = "release"
         /\ parg[c].universities.programs = <<P2, P3>>
    /\ Stored("AU", "Z")
    /\ Entity("AU", "Z").Programs = <<P1, P2, P3>>
    /\ Entity("AU", "Z").available_scholarships = <<S1, S2>>

\* C13: the listing pages are processed one at a time in increasing order:
\* Base_page changes only by +1 and only when every task submitted for the
\* current page has completed and been handled, and every task that exists,
\* running or not, was submitted for the current page, so no task of the next
\* page starts while a task of this page is running.
C13_PagesInOrder ==
    [][ /\ Base_page' \in {Base_page, Base_page + 1}
        /\ Base_page' /= Base_page
             => \A t \in TaskIds : tasks[t].pc = "collected"
        /\ \A t \in DOMAIN tasks' : tasks'[t].page = Base_page' ]_vars

\* C13 witness: the first page's iteration is over and tasks of the second
\* page are running, one of them still waiting for an executor thread.
C13_Witness ==
    /\ Base_page = FirstPage + 1
    /\ mainPc = "collect"
    /\ \E t, u \in TaskIds :
         /\ tasks[t].pc = "subpool" /\ tasks[t].page = FirstPage + 1
         /\ tasks[u].pc = "queued"

\* C14: the detail-page tasks in flight never exceed MAX_WORKERS, and within
\* one detail-page task the scholarship fetches running at once never exceed
\* the size of its sub-pool.
C14_Ceilings ==
    /\ Cardinality(InFlight(tasks)) <= MAX_WORKERS
    /\ \A t \in TaskIds : tasks[t].running <= SUB_WORKERS

\* C14 witness: both ceilings bind: MAX_WORKERS tasks are in flight while
\* another is queued, and one task has SUB_WORKERS fetches running while a
\* further scholarship link waits.
C14_Witness ==
    /\ Cardinality(InFlight(tasks)) = MAX_WORKERS
    /\ \E t \in TaskIds : tasks[t].pc = "queued"
    /\ \E t \in TaskIds :
         tasks[t].running = SUB_WORKERS /\ tasks[t].waiting > 0

\* C15: when a persist reads the store, a missing store and an unparsable
\* store are both taken as the empty document and not as an error: in both
\* cases the call goes on, returns, and has written back a document that
\* contains the new record.
C15_UnreadableIsEmpty ==
    \A c \in Callers :
        (ppc[c] \in {"done", "failed"} /\ parg[c] /= None) =>
            /\ ppc[c] = "done"
            /\ store.parses
            /\ Stored(parg[c].location, parg[c].universities.university_name)
            /\ AllIn(parg[c].universities.programs,
                     Entity(parg[c].location,
                            parg[c].universities.university_name).Programs)

\* C16: the outer loop ends by exhausting its interval: when
\* scrape_universities is over, it has finished by the loop test and the page
\* index is at its upper bound.
C16_EndsAtUpperBound ==
    mainPc \in {"finished", "crashed"}
        => (mainPc = "finished" /\ Base_page = LastPage)

\* The decimal text of n.
RECURSIVE Numeral(_)
Numeral(n) ==
    IF n < 10 THEN <<Digits[n + 1]>>
    ELSE Numeral(n \div 10) \o <<Digits[(n % 10) + 1]>>

\* The page numbers the pagination controls advertise.
Advertised(anchors) ==
    {n \in 0..99 : \E i \in 1..Len(anchors) : anchors[i] = Numeral(n)}

\* C18: get_total_scholarship_pages gives 1 when the fetch fails or the page
\* has no pagination control (or none that carries a number), and otherwise
\* the greatest page number the controls advertise; controls advertising
\* 1..7 give 7.
C18_TotalPages ==
    pages_call.pc = "returned" =>
        LET adv == Advertised(pages_call.anchors)
            total == pages_call.total_pages
        IN  /\ (~pages_call.up \/ pages_call.anchors = <<>>) => total = 1
            /\ (pages_call.up /\ adv = {}) => total = 1
            /\ (pages_call.up /\ adv /= {})
                 => (total \in adv /\ \A n \in adv : n <= total)
            /\ (pages_call.up /\ pages_call.anchors = OneToSeven)
                 => total = 7

\* C18 witness: the call on controls advertising 1..7 has returned 7.
C18_Witness ==
    /\ pages_call.pc = "returned"
    /\ pages_call.up
    /\ pages_call.anchors = OneToSeven
    /\ pages_call.total_pages = 7

\* C19: no session starvation: while the main thread keeps one session for
\* the whole listing page, every task that has been dispatched eventually
\* holds a session, and the batch eventually completes: the main thread
\* leaves the collection of the batch.
C19_NoStarvation ==
    /\ \A t \in 1..MaxLinks :
         (t \in TaskIds /\ tasks[t].pc \in {"queued", "get_session"})
           ~> (t \in TaskIds /\ tasks[t].session /= 0)
    /\ (mainPc = "collect") ~> (mainPc = "finally")

\* C19 witness: the main thread holds a session, the pool is empty and a
\* task is blocked in get_session while another task is queued behind it.
C19_Witness ==
    /\ mainSession /= 0
    /\ session_store = <<>>
    /\ \E t, u \in TaskIds :
         /\ tasks[t].pc = "get_session"
         /\ tasks[u].pc = "queued"

\* Callers inside the `with json_lock` block.
InCritical == {c \in Callers : ppc[c] \in {"read", "write", "release", "unwind"}}

\* C21: json_lock is never left held: a caller that has not entered, has
\* returned or has failed does not hold it, so with nobody inside the block
\* the lock is free and a caller waiting for it can enter; and while the
\* holder has not reached the write-back, or unwinds from a failed read, no
\* step changes the store.
C21_LockNeverLeftHeld ==
    /\ [](/\ \A c \in Callers : json_lock = c => c \in InCritical
          /\ InCritical = {} =>
                /\ json_lock = 0
                /\ \A d \in Callers :
                      ppc[d] = "acquire" => ENABLED PersistAcquire(d))
    /\ [][ \A c \in Callers :
             ( \/ ppc[c] = "read" /\ ppc'[c] \in {"read", "unwind"}
               \/ ppc[c] = "unwind" /\ ppc'[c] = "failed" )
                => store' = store ]_vars

\* C21 witness: one call has failed and a later call is inside the critical
\* section.
C21_Witness ==
    \E c, d \in Callers :
        /\ ppc[c] = "failed"
        /\ ppc[d] = "read"
        /\ json_lock = d

====
